---- MODULE Spec2Model ----
(***************************************************************************)
(* Model of the response-header subsystem of falcon (Nateyo/falcon):       *)
(*   src/falcon/headers.py   class Headers, header_property, normalizers   *)
(*   src/falcon/response.py  class Response (_set_media_type,              *)
(*                           _wsgi_headers)                                *)
(*                                                                         *)
(* Python values are tagged records [t, v]:                                *)
(*   t = "str"   v = the string, a sequence of one-character strings       *)
(*   t = "list"  v = a sequence of strings                                 *)
(*   t = "none"  the value None                                            *)
(*   t = "exc"   v = the name of the exception raised                      *)
(*   t = "pairs" v = a sequence of <<name, value>> tuples                  *)
(*   t = "bool"  v = TRUE or FALSE                                         *)
(* Every operation of the code is an operator from the state it reads to   *)
(* a record [h, n, ret]: the value map, the normalizer map and the         *)
(* returned value (or raised exception); the actions apply them.           *)
(***************************************************************************)
EXTENDS Integers, Sequences, FiniteSets, TLC

VARIABLES
    headers,      \* Headers._headers: insertion-ordered dict, a sequence of [k, v]
    normalizers,  \* Headers._normalizers: dict name -> normalizer
    cookies,      \* Response._cookies: None or the SimpleCookie jar
    options,      \* Response.options: the ResponseOptions of the response
    _data,        \* Response._data: None or the bytes of the body
    _media,       \* Response._media: None or the media object
    last,         \* history: the last call and its arguments
    ret           \* history: what the last call returned or raised

vars == <<headers, normalizers, cookies, options, _data, _media, last, ret>>

----------------------------------------------------------------------------
(* Bounds *)

\* longest list of values a header entry is grown to by append
MaxVals == 2
\* number of (name, value) pairs in one set_headers call
MaxSetHeaders == 1

----------------------------------------------------------------------------
(* Python values *)

PyNone == [t |-> "none", v |-> <<>>]
PyStr(s) == [t |-> "str", v |-> s]
PyList(l) == [t |-> "list", v |-> l]
PyBool(b) == [t |-> "bool", v |-> b]
PyPairs(p) == [t |-> "pairs", v |-> p]
Raise(e) == [t |-> "exc", v |-> e]

\* header names the callers use, in several casings
Names == {"Vary", "vary", "Content-Type"}

\* every name the code handles: the callers' and the lower-cased ones it
\* builds itself
AllNames == Names \cup {"content-type", "Content-Range", "content-range", "Link", "link"}

\* str.lower() on the names above
Lower == [nm \in AllNames |->
            CASE nm = "Vary" -> "vary"
              [] nm = "vary" -> "vary"
              [] nm = "Content-Type" -> "content-type"
              [] nm = "content-type" -> "content-type"
              [] nm = "Content-Range" -> "content-range"
              [] nm = "content-range" -> "content-range"
              [] nm = "Link" -> "link"
              [] nm = "link" -> "link"]

LowerNames == {Lower[nm] : nm \in Names}

\* header values the callers pass: strings of one and of two characters
Strs == {<<"a">>, <<"b", "c">>}

\* lists of strings the callers pass to add
Lists == {<<>>, <<<<"a">>>>, <<<<"a">>, <<"b", "c">>>>}

\* the strings the callers append to an entry and pass to set_headers
AppendStrs == {<<"b", "c">>}

\* str or list arguments of add
AddValues == {PyStr(s) : s \in Strs} \cup {PyList(l) : l \in Lists}

\* the media type handed to _wsgi_headers ("j" stands for application/json)
MEDIA_JSON == <<"j">>

----------------------------------------------------------------------------
(* The insertion-ordered dict _headers *)

Keys(h) == {h[i].k : i \in DOMAIN h}

\* name in self._headers
Has(h, k) == k \in Keys(h)

IndexOf(h, k) == CHOOSE i \in DOMAIN h : h[i].k = k

\* dict.__getitem__ on a key that is present
Item(h, k) == h[IndexOf(h, k)].v

\* dict.__setitem__: an existing key keeps its position, a new key goes last
SetItem(h, k, val) ==
    IF Has(h, k) THEN [h EXCEPT ![IndexOf(h, k)].v = val]
    ELSE Append(h, [k |-> k, v |-> val])

\* dict.__delitem__ on a key that is present
DelItem(h, k) == SelectSeq(h, LAMBDA e : e.k # k)

\* defaultdict(list).__getitem__: a missing key is created with the value []
\* and the (possibly new) value is returned together with the dict
DefaultGet(h, k) ==
    IF Has(h, k) THEN [h |-> h, val |-> Item(h, k)]
    ELSE [h |-> SetItem(h, k, PyList(<<>>)), val |-> PyList(<<>>)]

----------------------------------------------------------------------------
(* Normalizers *)

RECURSIVE Join(_, _)
\* sep.join(items) for a sequence of strings
Join(sep, items) ==
    IF items = <<>> THEN <<>>
    ELSE IF Len(items) = 1 THEN items[1]
    ELSE items[1] \o sep \o Join(sep, Tail(items))

\* the items sep.join iterates over: the elements of a list, the characters
\* of a str
Iterate(data) ==
    IF data.t = "list" THEN data.v
    ELSE [i \in DOMAIN data.v |-> <<data.v[i]>>]

\* BASE_NORMALIZER(sep, data) = sep.join(data)
BASE_NORMALIZER(sep, data) == PyStr(Join(sep, Iterate(data)))

\* COMMA_NORMALIZER = partial(BASE_NORMALIZER, sep=","): the call
\* COMMA_NORMALIZER(data) is BASE_NORMALIZER(data, sep=","), which binds the
\* first parameter sep twice and raises TypeError before the body runs
COMMA_NORMALIZER(data) == Raise("TypeError")

\* SEMICOLON_NORMALIZER = partial(BASE_NORMALIZER, sep=";"), same call shape
SEMICOLON_NORMALIZER(data) == Raise("TypeError")

\* a normalizer supplied by the caller: lambda data: "|".join(data)
USER_NORMALIZER(data) == BASE_NORMALIZER(<<"|">>, data)

\* normalizers the callers pass to add and set_normalizer
Normalizers == {"COMMA_NORMALIZER", "USER_NORMALIZER"}

\* calling the normalizer object N on data
Call(N, data) ==
    CASE N = "COMMA_NORMALIZER" -> COMMA_NORMALIZER(data)
      [] N = "SEMICOLON_NORMALIZER" -> SEMICOLON_NORMALIZER(data)
      [] N = "USER_NORMALIZER" -> USER_NORMALIZER(data)

----------------------------------------------------------------------------
(* class Headers *)

\* exists without name.lower(): the lookup is made with the caller's casing
exists_cased(h, name) == Has(h, name)

\* Headers.exists
exists(h, name) == Has(h, Lower[name])

\* add without the coercion: the value is stored as passed, a str stays a str
add_uncoerced(h, n, name, value, normalizer) ==
    LET k == Lower[name] IN
    [h |-> SetItem(h, k, value),
     n |-> (k :> normalizer) @@ n,
     ret |-> PyNone]

\* add that extends the values of an existing entry instead of replacing them
add_extending(h, n, name, value, normalizer) ==
    LET k == Lower[name]
        new == IF value.t = "list" THEN value.v ELSE <<value.v>>
        old == IF Has(h, k) /\ Item(h, k).t = "list" THEN Item(h, k).v ELSE <<>>
    IN  [h |-> SetItem(h, k, PyList(old \o new)),
         n |-> (k :> normalizer) @@ n,
         ret |-> PyNone]

\* Headers.add
add(h, n, name, value, normalizer) ==
    LET k == Lower[name] IN
    [h |-> SetItem(h, k, IF value.t = "list" THEN value ELSE PyList(<<value.v>>)),
     n |-> (k :> normalizer) @@ n,
     ret |-> PyNone]

\* Headers.append: self._headers[name.lower()].append(value) on a defaultdict
append(h, n, name, value) ==
    LET k == Lower[name]
        g == DefaultGet(h, k)
    IN  IF g.val.t = "list"
        THEN [h |-> SetItem(g.h, k, PyList(Append(g.val.v, value.v))),
              n |-> n, ret |-> PyNone]
        ELSE \* a bare str has no method append
             [h |-> g.h, n |-> n, ret |-> Raise("AttributeError")]

\* set_normalizer that binds only for a header that exists
set_normalizer_existing(h, n, name, normalizer) ==
    [h |-> h,
     n |-> IF Has(h, Lower[name]) THEN (Lower[name] :> normalizer) @@ n ELSE n,
     ret |-> PyNone]

\* Headers.set_normalizer
set_normalizer(h, n, name, normalizer) ==
    [h |-> h, n |-> (Lower[name] :> normalizer) @@ n, ret |-> PyNone]

\* Headers.get: the callee self._normalizers[name] is evaluated first, then
\* the argument self._headers[name], then the call
get(h, n, name, use_normalizer) ==
    LET k == Lower[name]
        g == DefaultGet(h, k)
    IN  IF use_normalizer
        THEN IF k \notin DOMAIN n
             THEN [h |-> h, n |-> n, ret |-> Raise("KeyError")]
             ELSE [h |-> g.h, n |-> n, ret |-> Call(n[k], g.val)]
        ELSE [h |-> g.h, n |-> n, ret |-> g.val]

\* remove without the try/except: deleting a missing key raises
remove_strict(h, n, name) ==
    IF Has(h, Lower[name])
    THEN [h |-> DelItem(h, Lower[name]), n |-> n, ret |-> PyNone]
    ELSE [h |-> h, n |-> n, ret |-> Raise("KeyError")]

\* Headers.remove
remove(h, n, name) ==
    [h |-> DelItem(h, Lower[name]), n |-> n, ret |-> PyNone]

\* one element of the list comprehension of Headers.normalized
NormalizedItem(h, n, i) ==
    IF h[i].k \notin DOMAIN n THEN Raise("KeyError") ELSE Call(n[h[i].k], h[i].v)

\* normalized that first binds the default normalizer to every entry that
\* has none (a setdefault inside the export)
normalized_binding(h, n) ==
    LET m == [k \in Keys(h) \cup DOMAIN n |->
                IF k \in DOMAIN n THEN n[k] ELSE "COMMA_NORMALIZER"]
        bad == {i \in DOMAIN h : NormalizedItem(h, m, i).t = "exc"}
        first == CHOOSE i \in bad : \A j \in bad : i <= j
    IN  [h |-> h, n |-> m,
         ret |-> IF bad # {} THEN NormalizedItem(h, m, first)
                 ELSE PyPairs([i \in DOMAIN h |-> <<h[i].k, NormalizedItem(h, m, i).v>>])]

\* Headers.normalized: the first element that raises ends the comprehension
normalized(h, n) ==
    LET bad == {i \in DOMAIN h : NormalizedItem(h, n, i).t = "exc"}
        first == CHOOSE i \in bad : \A j \in bad : i <= j
    IN  [h |-> h, n |-> n,
         ret |-> IF bad # {} THEN NormalizedItem(h, n, first)
                 ELSE PyPairs([i \in DOMAIN h |-> <<h[i].k, NormalizedItem(h, n, i).v>>])]

RECURSIVE set_headers(_, _, _)
\* Headers.set_headers: _headers[name.lower()] = str(value), pair by pair
set_headers(h, n, pairs) ==
    IF pairs = <<>> THEN [h |-> h, n |-> n, ret |-> PyNone]
    ELSE set_headers(SetItem(h, Lower[pairs[1][1]], PyStr(pairs[1][2])), n, Tail(pairs))

----------------------------------------------------------------------------
(* header_property *)

\* the typed accessors modelled, with the header name each is created for
Properties == {"content_type", "vary"}

\* the typed accessors modelled that are created with a transform
TransformProperties == {"content_range"}

PropertyName == [p \in Properties \cup TransformProperties |->
                    CASE p = "content_type" -> "Content-Type"
                      [] p = "vary" -> "Vary"
                      [] p = "content_range" -> "Content-Range"]

\* normalized_name = name.lower()
normalized_name(p) == Lower[PropertyName[p]]

RECURSIVE ReprItems(_)
\* the elements of repr(list): each string in quotes, separated by ", "
ReprItems(l) ==
    IF l = <<>> THEN <<>>
    ELSE IF Len(l) = 1 THEN <<"'">> \o l[1] \o <<"'">>
    ELSE <<"'">> \o l[1] \o <<"'", ",", " ">> \o ReprItems(Tail(l))

\* str(value): a str is itself, a list is its repr
str(value) ==
    IF value.t = "str" THEN PyStr(value.v)
    ELSE PyStr(<<"[">> \o ReprItems(value.v) \o <<"]">>)

\* header_property.fget
fget(h, n, p) == get(h, n, normalized_name(p), TRUE)

\* header_property.fset with transform None
fset(h, n, p, value) ==
    IF value.t = "none"
    THEN [h |-> DelItem(h, normalized_name(p)), n |-> n, ret |-> PyNone]
    ELSE add(h, n, normalized_name(p), str(value), "COMMA_NORMALIZER")

\* format_range: (start, end, total[, unit]) becomes
\* "<unit> <start>-<end>/<total>", unit defaulting to "bytes"; a tuple of
\* another shape is a format error
format_range(value) ==
    IF value.t # "tuple" \/ Len(value.v) \notin {3, 4} THEN Raise("FormatError")
    ELSE LET unit == IF Len(value.v) = 4 THEN value.v[4] ELSE <<"b", "y", "t", "e", "s">>
         IN  PyStr(unit \o <<" ">> \o value.v[1] \o <<"-">> \o value.v[2]
                        \o <<"/">> \o value.v[3])

\* the transform header_property is given for the accessor p
transform(p, value) ==
    CASE p = "content_range" -> format_range(value)

\* fset with a transform that removes the old entry before it transforms
fset_transform_clearing(h, n, p, value) ==
    IF value.t = "none" \/ transform(p, value).t = "exc"
    THEN [h |-> DelItem(h, normalized_name(p)), n |-> n,
          ret |-> IF value.t = "none" THEN PyNone ELSE transform(p, value)]
    ELSE add(h, n, normalized_name(p), transform(p, value), "COMMA_NORMALIZER")

\* header_property.fset with a transform: transform(value) is evaluated
\* before add is called, so an exception of the transform leaves before add
fset_transform(h, n, p, value) ==
    IF value.t = "none"
    THEN [h |-> DelItem(h, normalized_name(p)), n |-> n, ret |-> PyNone]
    ELSE IF transform(p, value).t = "exc"
         THEN [h |-> h, n |-> n, ret |-> transform(p, value)]
         ELSE add(h, n, normalized_name(p), transform(p, value), "COMMA_NORMALIZER")

\* values written to content_range: None, well-formed and malformed tuples
RangeValues ==
    {PyNone,
     [t |-> "tuple", v |-> <<<<"0">>, <<"1">>, <<"2">>>>],
     [t |-> "tuple", v |-> <<<<"0">>, <<"1">>, <<"*">>, <<"x">>>>],
     [t |-> "tuple", v |-> <<<<"0">>>>]}

\* header_property.fdel
fdel(h, n, p) == remove(h, n, normalized_name(p))

\* values written through the typed accessors: None, a str, a list of tokens
FsetValues == {PyNone, PyStr(<<"a">>), PyList(<<<<"a">>, <<"b", "c">>>>)}

----------------------------------------------------------------------------
(* http.cookies: SimpleCookie and Morsel *)

PyInt(i) == [t |-> "int", v |-> i]
\* a number with one decimal, held in tenths: 19 is 1.9
PyNum(tenths) == [t |-> "num", v |-> tenths]
\* a datetime: its hour and the UTC offset of its tzinfo in hours, or PyNone
\* as tz for a naive one
PyDatetime(hour, tz) == [t |-> "datetime", v |-> [hour |-> hour, tz |-> tz]]

\* a character that has no ASCII encoding (an e-acute)
NON_ASCII == "U+00E9"

\* http.cookies._LegalChars, as far as the callers' strings go
LegalChars == {"a", "b", "d", "v", "w", "x"}

\* http.cookies._is_legal_key
_is_legal_key(key) == key # <<>> /\ \A i \in DOMAIN key : key[i] \in LegalChars

\* http.cookies._quote: a str of legal characters stays, another is put in
\* double quotes
_quote(str_) == IF _is_legal_key(str_) THEN str_ ELSE <<"\"">> \o str_ \o <<"\"">>

DigitChar == [d \in 0..9 |-> CASE d = 0 -> "0" [] d = 1 -> "1" [] d = 2 -> "2"
                               [] d = 3 -> "3" [] d = 4 -> "4" [] d = 5 -> "5"
                               [] d = 6 -> "6" [] d = 7 -> "7" [] d = 8 -> "8"
                               [] d = 9 -> "9"]

\* "%d" % i for 0 <= i < 100, and "%02d" % i
IntStr(i) == IF i < 10 THEN <<DigitChar[i]>> ELSE <<DigitChar[i \div 10], DigitChar[i % 10]>>
IntStr2(i) == <<DigitChar[i \div 10], DigitChar[i % 10]>>

\* dt.strftime('%a, %d %b %Y %H:%M:%S GMT'), of which the hour is kept
strftime(dt) == IntStr2(dt.v.hour) \o <<"h", " ", "G", "M", "T">>

\* dt.astimezone(GMT_TIMEZONE)
astimezone_GMT(dt) == PyDatetime((dt.v.hour + 24 - dt.v.tz.v) % 24, PyInt(0))

\* http.cookies._getdate(-1): the second before now
PAST_DATE == <<"n", "o", "w", "-", "1">>

\* Morsel._reserved, as far as set_cookie writes it; every attribute of a new
\* Morsel is ''
NewAttrs == [domain |-> PyStr(<<>>), expires |-> PyStr(<<>>), httponly |-> PyStr(<<>>),
             maxage |-> PyStr(<<>>), path |-> PyStr(<<>>), secure |-> PyStr(<<>>)]

\* Morsel()
NewMorsel == [key |-> <<>>, value |-> <<>>, coded_value |-> <<>>, attrs |-> NewAttrs]

\* one "; attribute" of Morsel.OutputString; an attribute that is '' is skipped
AttrString(key, val) ==
    IF val = PyStr(<<>>) THEN <<>>
    ELSE <<";", " ">> \o
         CASE key = "domain" -> <<"D", "o", "m", "a", "i", "n", "=">> \o val.v
           [] key = "expires" ->
                <<"e", "x", "p", "i", "r", "e", "s", "=">>
                    \o (IF val.t = "int" THEN PAST_DATE ELSE val.v)
           [] key = "httponly" -> <<"H", "t", "t", "p", "O", "n", "l", "y">>
           [] key = "maxage" -> <<"M", "a", "x", "-", "A", "g", "e", "=">> \o IntStr(val.v)
           [] key = "path" -> <<"P", "a", "t", "h", "=">> \o val.v
           [] key = "secure" -> <<"S", "e", "c", "u", "r", "e">>

\* Morsel.OutputString: key=coded_value, then the attributes sorted by key
OutputString(m) ==
    m.key \o <<"=">> \o m.coded_value
        \o AttrString("domain", m.attrs.domain)
        \o AttrString("expires", m.attrs.expires)
        \o AttrString("httponly", m.attrs.httponly)
        \o AttrString("maxage", m.attrs.maxage)
        \o AttrString("path", m.attrs.path)
        \o AttrString("secure", m.attrs.secure)

\* BaseCookie.__setitem__ with a str value: M = self.get(key, Morsel());
\* M.set(key, value, _quote(value)); the Morsel the jar already holds for the
\* key is kept, with its attributes
cookie_setitem(jar, key, value) ==
    IF ~_is_legal_key(key) THEN [c |-> jar, ret |-> Raise("CookieError")]
    ELSE LET M == IF Has(jar, key) THEN Item(jar, key) ELSE NewMorsel
         IN  [c |-> SetItem(jar, key, [M EXCEPT !.key = key, !.value = value,
                                                 !.coded_value = _quote(value)]),
              ret |-> PyNone]

\* self._cookies[name][attr] = val
morsel_setitem(jar, name, attr, val) ==
    SetItem(jar, name, [Item(jar, name) EXCEPT !.attrs[attr] = val])

----------------------------------------------------------------------------
(* class Response *)

\* ResponseOptions.__init__: DEFAULT_MEDIA_TYPE is application/json
ResponseOptions == [secure_cookies_by_default |-> TRUE, default_media_type |-> MEDIA_JSON]

\* is_ascii_encodable: s.encode('ascii') succeeds
is_ascii_encodable(s) == \A i \in DOMAIN s : s[i] # NON_ASCII

\* bool(x) of an argument of set_cookie
Truthy(x) ==
    CASE x.t = "none" -> FALSE
      [] x.t = "bool" -> x.v
      [] x.t = "num" -> x.v # 0
      [] x.t = "str" -> x.v # <<>>
      [] OTHER -> TRUE

\* int(x): a number is truncated, a str that is no numeral is a ValueError
int(x) == IF x.t = "num" THEN PyInt(x.v \div 10) ELSE Raise("ValueError")

\* _set_media_type without the test for an existing Content-Type
_set_media_type_always(h, n, media_type) ==
    IF media_type.t # "none"
    THEN add(h, n, "content-type", media_type, "COMMA_NORMALIZER")
    ELSE [h |-> h, n |-> n, ret |-> PyNone]

\* Response._set_media_type
_set_media_type(h, n, media_type) ==
    LET set_content_type == media_type.t # "none" /\ ~exists(h, "content-type")
    IN  IF set_content_type
        THEN add(h, n, "content-type", media_type, "COMMA_NORMALIZER")
        ELSE [h |-> h, n |-> n, ret |-> PyNone]

\* the jar set_cookie works on: self._cookies, or SimpleCookie() when it is
\* None
JarOf(c) == IF c.t = "none" THEN <<>> ELSE c.v
PyJar(jar) == [t |-> "jar", v |-> jar]

\* the secure flag taken from the argument alone, on when it is not given
is_secure_by_argument(opts, o) ==
    IF o.secure.t = "none" THEN TRUE ELSE o.secure.v

\* is_secure of set_cookie: the secure argument when it is given, else
\* options.secure_cookies_by_default
is_secure(opts, o) ==
    IF o.secure.t = "none" THEN opts.secure_cookies_by_default ELSE o.secure.v

\* the attribute assignments of set_cookie that follow self._cookies[name] =
\* value, in the order of the code; o holds the keyword arguments
set_cookie_attrs(jar, opts, name, o) ==
    LET j1 == IF Truthy(o.expires)
              THEN morsel_setitem(jar, name, "expires",
                       PyStr(IF o.expires.v.tz.t = "none" THEN strftime(o.expires)
                             ELSE strftime(astimezone_GMT(o.expires))))
              ELSE jar
        failed == Truthy(o.max_age) /\ int(o.max_age).t = "exc"
        j2 == IF Truthy(o.max_age) /\ ~failed
              THEN morsel_setitem(j1, name, "maxage", int(o.max_age)) ELSE j1
        j3 == IF Truthy(o.domain) THEN morsel_setitem(j2, name, "domain", o.domain) ELSE j2
        j4 == IF Truthy(o.path) THEN morsel_setitem(j3, name, "path", o.path) ELSE j3
        j5 == IF is_secure(opts, o) THEN morsel_setitem(j4, name, "secure", PyBool(TRUE)) ELSE j4
        j6 == IF Truthy(o.http_only)
              THEN morsel_setitem(j5, name, "httponly", o.http_only) ELSE j5
    IN  IF failed THEN [c |-> PyJar(j1), ret |-> int(o.max_age)]
        ELSE [c |-> PyJar(j6), ret |-> PyNone]

\* set_cookie that stores the cookie before it looks at the name and value
set_cookie_unvalidated(c, opts, name, value, o) ==
    LET set == cookie_setitem(JarOf(c), name, value)
    IN  IF set.ret.t = "exc" THEN [c |-> PyJar(set.c), ret |-> Raise("KeyError")]
        ELSE IF ~is_ascii_encodable(name) THEN [c |-> PyJar(set.c), ret |-> Raise("KeyError")]
        ELSE IF ~is_ascii_encodable(value) THEN [c |-> PyJar(set.c), ret |-> Raise("ValueError")]
        ELSE set_cookie_attrs(set.c, opts, name, o)

\* Response.set_cookie: the two checks come first; then the jar is created
\* when there is none, the value is set (a CookieError becomes a KeyError),
\* and the attributes are set one by one
set_cookie(c, opts, name, value, o) ==
    IF ~is_ascii_encodable(name) THEN [c |-> c, ret |-> Raise("KeyError")]
    ELSE IF ~is_ascii_encodable(value) THEN [c |-> c, ret |-> Raise("ValueError")]
    ELSE LET set == cookie_setitem(JarOf(c), name, value)
         IN  IF set.ret.t = "exc" THEN [c |-> PyJar(set.c), ret |-> Raise("KeyError")]
             ELSE set_cookie_attrs(set.c, opts, name, o)

\* Response.unset_cookie: no check of the name; the value becomes '' and
\* expires -1
unset_cookie(c, name) ==
    LET set == cookie_setitem(JarOf(c), name, <<>>)
    IN  IF set.ret.t = "exc" THEN [c |-> PyJar(set.c), ret |-> set.ret]
        ELSE [c |-> PyJar(morsel_setitem(set.c, name, "expires", PyInt(-1))),
              ret |-> PyNone]

PyBytes(b) == [t |-> "bytes", v |-> b]
\* a media object, known by its name
PyObj(o) == [t |-> "obj", v |-> o]

\* Handlers.find_by_media_type(media_type, default): the handler registered
\* for the media type, or for the default when the media type is empty; the
\* registry holds the JSON handler
find_by_media_type(media_type, default) ==
    LET resolved == IF media_type.v = <<>> THEN default ELSE media_type.v
    IN  IF resolved = MEDIA_JSON THEN PyStr(resolved)
        ELSE Raise("HTTPUnsupportedMediaType")

\* handler.serialize(media, content_type): the bytes of the object
serialize(media, content_type) == PyBytes(<<"{">> \o media.v \o <<"}">>)

\* the getter of Response.data: explicit or cached bytes first, None without
\* media; else the content type is read through the typed accessor (three
\* times), the handler is looked up and the media object is serialized into
\* _data. The assignment self.content_type = ... sets an attribute of the
\* response and no header. serialized tells whether serialize was called
data_fget(h, n, d, m, opts) ==
    IF d.t # "none"
    THEN [h |-> h, n |-> n, d |-> d, ret |-> d, serialized |-> FALSE]
    ELSE IF m.t = "none"
    THEN [h |-> h, n |-> n, d |-> d, ret |-> PyNone, serialized |-> FALSE]
    ELSE LET ct == fget(h, n, "content_type")
             handler == find_by_media_type(ct.ret, opts.default_media_type)
         IN  IF ct.ret.t = "exc"
             THEN [h |-> ct.h, n |-> ct.n, d |-> d, ret |-> ct.ret, serialized |-> FALSE]
             ELSE IF handler.t = "exc"
             THEN [h |-> ct.h, n |-> ct.n, d |-> d, ret |-> handler, serialized |-> FALSE]
             ELSE [h |-> ct.h, n |-> ct.n, d |-> serialize(m, ct.ret),
                   ret |-> serialize(m, ct.ret), serialized |-> TRUE]

\* the setter of Response.data
data_fset(d, m, value) == [d |-> value, m |-> m]

\* the setter of Response.media: the object is kept and _data is reset
media_fset(d, m, obj) == [d |-> PyNone, m |-> obj]

\* media objects and bytes the callers assign
MediaObjects == {PyNone, PyObj(<<"p">>), PyObj(<<"q">>)}
DataValues == {PyNone, PyBytes(<<>>), PyBytes(<<"b">>)}

\* sub in s
Contains(s, sub) ==
    \E i \in 1..(Len(s) - Len(sub) + 1) : SubSeq(s, i, i + Len(sub) - 1) = sub

RECURSIVE split(_)
\* s.split(): the words of s between runs of spaces
split(s) ==
    IF s = <<>> THEN <<>>
    ELSE IF Head(s) = " " THEN split(Tail(s))
    ELSE LET ends == {i \in 1..Len(s) : s[i] = " "}
             n == IF ends = {} THEN Len(s) + 1
                  ELSE CHOOSE i \in ends : \A j \in ends : i <= j
         IN  <<SubSeq(s, 1, n - 1)>> \o split(SubSeq(s, n, Len(s)))

RECURSIVE uri_encode(_)
\* falcon.util.uri.encode: a space is percent-encoded, the unreserved and
\* reserved characters of a URI stay
uri_encode(s) ==
    IF s = <<>> THEN <<>>
    ELSE (IF Head(s) = " " THEN <<"%", "2", "0">> ELSE <<Head(s)>>) \o uri_encode(Tail(s))

RECURSIVE uri_encode_value(_)
\* falcon.util.uri.encode_value: reserved characters are percent-encoded too
uri_encode_value(s) ==
    IF s = <<>> THEN <<>>
    ELSE (CASE Head(s) = " " -> <<"%", "2", "0">>
            [] Head(s) = "/" -> <<"%", "2", "F">>
            [] OTHER -> <<Head(s)>>) \o uri_encode_value(Tail(s))

\* the value add_link builds from its arguments; o holds the keyword
\* arguments title, title_star, type_hint, hreflang and anchor
link_value(target, rel, o) ==
    LET quoted == IF Contains(rel, <<"/", "/">>)
                  THEN IF Contains(rel, <<" ">>)
                       THEN <<"\"">> \o Join(<<" ">>, [i \in DOMAIN split(rel) |->
                                                         uri_encode(split(rel)[i])])
                                    \o <<"\"">>
                       ELSE <<"\"">> \o uri_encode(rel) \o <<"\"">>
                  ELSE rel
        v0 == <<"<">> \o uri_encode(target) \o <<">", ";", " ", "r", "e", "l", "=">> \o quoted
        v1 == IF o.title.t # "none"
              THEN v0 \o <<";", " ", "t", "i", "t", "l", "e", "=", "\"">> \o o.title.v \o <<"\"">>
              ELSE v0
        v2 == IF o.title_star.t # "none"
              THEN v1 \o <<";", " ", "t", "i", "t", "l", "e", "*", "=",
                           "U", "T", "F", "-", "8", "'">>
                      \o o.title_star.v[1] \o <<"'">> \o uri_encode_value(o.title_star.v[2])
              ELSE v1
        v3 == IF o.type_hint.t # "none"
              THEN v2 \o <<";", " ", "t", "y", "p", "e", "=", "\"">> \o o.type_hint.v \o <<"\"">>
              ELSE v2
        hl == <<"h", "r", "e", "f", "l", "a", "n", "g", "=">>
        v4 == IF o.hreflang.t = "none" THEN v3
              ELSE IF o.hreflang.t = "str" THEN v3 \o <<";", " ">> \o hl \o o.hreflang.v
              ELSE v3 \o <<";", " ">>
                      \o Join(<<";", " ">>, [i \in DOMAIN o.hreflang.v |-> hl \o o.hreflang.v[i]])
        v5 == IF o.anchor.t # "none"
              THEN v4 \o <<";", " ", "a", "n", "c", "h", "o", "r", "=", "\"">>
                      \o uri_encode(o.anchor.v) \o <<"\"">>
              ELSE v4
    IN  v5

\* Response.add_link: the value is appended when the header exists and added
\* otherwise
add_link(h, n, target, rel, o) ==
    IF exists(h, "link")
    THEN append(h, n, "link", PyStr(link_value(target, rel, o)))
    ELSE add(h, n, "link", PyStr(link_value(target, rel, o)), "COMMA_NORMALIZER")

\* targets, relation types and keyword arguments the callers pass to add_link
LinkTargets == {<<"/", "a">>, <<"/", "b", " ">>}
LinkRels == {<<"n">>, <<"/", "/", "x", " ", "n">>}
LinkOptions ==
    {[title |-> PyNone, title_star |-> PyNone, type_hint |-> PyNone,
      hreflang |-> PyNone, anchor |-> PyNone],
     [title |-> PyStr(<<"t">>), title_star |-> [t |-> "tuple", v |-> <<<<"e">>, <<"/", "t">>>>],
      type_hint |-> PyStr(<<"j">>), hreflang |-> PyList(<<<<"e">>, <<"f">>>>),
      anchor |-> PyStr(<<"/", "c">>)]}

\* c.OutputString() for the cookies of the jar, each as a set-cookie pair
CookiePairs(c) ==
    IF c.t = "none" THEN <<>>
    ELSE [i \in DOMAIN c.v |-> <<"set-cookie", OutputString(c.v[i].v)>>]

\* cookie names the callers pass: two plain ones and one with a character
\* outside ASCII
CookieNames == {<<"a">>, <<"b">>, <<"a", NON_ASCII>>}

\* cookie values the callers pass
CookieValues == {<<"v">>, <<"w">>, <<NON_ASCII>>}

\* keyword arguments the callers pass to set_cookie: the defaults; every
\* attribute, with an aware expires two hours east of GMT and max_age 1.9;
\* secure and http_only off, with a naive expires and a max_age that is no
\* number
CookieOptions ==
    {[expires |-> PyNone, max_age |-> PyNone, domain |-> PyNone, path |-> PyNone,
      secure |-> PyNone, http_only |-> PyBool(TRUE)],
     [expires |-> PyDatetime(1, PyInt(2)), max_age |-> PyNum(19),
      domain |-> PyStr(<<"d">>), path |-> PyStr(<<"/">>),
      secure |-> PyBool(TRUE), http_only |-> PyBool(TRUE)],
     [expires |-> PyDatetime(1, PyNone), max_age |-> PyStr(<<"x">>), domain |-> PyNone,
      path |-> PyNone, secure |-> PyBool(FALSE), http_only |-> PyBool(FALSE)]}

\* Response._wsgi_headers: normalized() runs before _set_media_type; when it
\* raises nothing after it runs
_wsgi_headers(h, n, c, media_type) ==
    LET hd == normalized(h, n)
        sm == _set_media_type(h, n, media_type)
    IN  IF hd.ret.t = "exc" THEN hd
        ELSE [h |-> sm.h, n |-> sm.n, ret |-> PyPairs(hd.ret.v \o CookiePairs(c))]

\* default media types handed to _wsgi_headers
MediaTypes == {PyNone, PyStr(MEDIA_JSON)}

----------------------------------------------------------------------------
(* The state machine *)

Init ==
    /\ headers = <<>>
    /\ normalizers = <<>>
    /\ cookies = PyNone
    /\ options = ResponseOptions
    /\ _data = PyNone
    /\ _media = PyNone
    /\ last = [op |-> "init"]
    /\ ret = PyNone

\* the step every call takes: r is the [h, n, ret] the operation yields
Step(call, r) ==
    /\ headers' = r.h
    /\ normalizers' = r.n
    /\ ret' = r.ret
    /\ last' = call
    /\ UNCHANGED <<cookies, options, _data, _media>>

Exists ==
    \E name \in Names :
        Step([op |-> "exists", name |-> name],
             [h |-> headers, n |-> normalizers, ret |-> PyBool(exists(headers, name))])

Add ==
    \E name \in Names, value \in AddValues, normalizer \in Normalizers :
        Step([op |-> "add", name |-> name, value |-> value, normalizer |-> normalizer],
             add(headers, normalizers, name, value, normalizer))

AppendValue ==
    \E name \in Names, s \in AppendStrs :
        /\ \A i \in DOMAIN headers :
              (headers[i].k = Lower[name] /\ headers[i].v.t = "list") =>
                  Len(headers[i].v.v) < MaxVals
        /\ Step([op |-> "append", name |-> name, value |-> PyStr(s)],
                append(headers, normalizers, name, PyStr(s)))

SetNormalizer ==
    \E name \in Names, normalizer \in Normalizers :
        Step([op |-> "set_normalizer", name |-> name, normalizer |-> normalizer],
             set_normalizer(headers, normalizers, name, normalizer))

Get ==
    \E name \in Names, use_normalizer \in BOOLEAN :
        Step([op |-> "get", name |-> name, use_normalizer |-> use_normalizer],
             get(headers, normalizers, name, use_normalizer))

Remove ==
    \E name \in Names :
        Step([op |-> "remove", name |-> name],
             remove(headers, normalizers, name))

Normalized ==
    Step([op |-> "normalized"], normalized(headers, normalizers))

SetHeaders ==
    \E len \in 1..MaxSetHeaders :
        \E pairs \in [1..len -> Names \X AppendStrs] :
            Step([op |-> "set_headers", pairs |-> pairs],
                 set_headers(headers, normalizers, pairs))

Fget ==
    \E p \in Properties :
        Step([op |-> "fget", property |-> p], fget(headers, normalizers, p))

Fset ==
    \E p \in Properties, value \in FsetValues :
        Step([op |-> "fset", property |-> p, value |-> value],
             fset(headers, normalizers, p, value))

Fdel ==
    \E p \in Properties :
        Step([op |-> "fdel", property |-> p], fdel(headers, normalizers, p))

WsgiHeaders ==
    \E media_type \in MediaTypes :
        Step([op |-> "_wsgi_headers", media_type |-> media_type],
             _wsgi_headers(headers, normalizers, cookies, media_type))

Next ==
    \/ Exists
    \/ Add
    \/ AppendValue
    \/ SetNormalizer
    \/ Get
    \/ Remove
    \/ Normalized
    \/ SetHeaders
    \/ Fget
    \/ Fset
    \/ Fdel
    \/ WsgiHeaders

Spec == Init /\ [][Next]_vars

TypeOK ==
    /\ \A i \in DOMAIN headers : headers[i].k \in LowerNames
    /\ DOMAIN normalizers \subseteq LowerNames

----------------------------------------------------------------------------
(* The typed accessors, with the store calls made on their headers *)

FgetAny ==
    \E p \in Properties \cup TransformProperties :
        Step([op |-> "fget", property |-> p], fget(headers, normalizers, p))

FsetTransform ==
    \E p \in TransformProperties, value \in RangeValues :
        Step([op |-> "fset", property |-> p, value |-> value],
             fset_transform(headers, normalizers, p, value))

FdelAny ==
    \E p \in Properties \cup TransformProperties :
        Step([op |-> "fdel", property |-> p], fdel(headers, normalizers, p))

SetNormalizerOfProperty ==
    \E p \in TransformProperties, normalizer \in Normalizers :
        Step([op |-> "set_normalizer", name |-> PropertyName[p], normalizer |-> normalizer],
             set_normalizer(headers, normalizers, PropertyName[p], normalizer))

AppendToProperty ==
    \E p \in TransformProperties, s \in AppendStrs :
        /\ \A i \in DOMAIN headers :
              (headers[i].k = normalized_name(p) /\ headers[i].v.t = "list") =>
                  Len(headers[i].v.v) < MaxVals
        /\ Step([op |-> "append", name |-> PropertyName[p], value |-> PyStr(s)],
                append(headers, normalizers, PropertyName[p], PyStr(s)))

NextAccessors ==
    \/ FgetAny
    \/ Fset
    \/ FsetTransform
    \/ FdelAny
    \/ SetNormalizerOfProperty
    \/ AppendToProperty
    \/ Normalized

SpecAccessors == Init /\ [][NextAccessors]_vars

----------------------------------------------------------------------------
(* The cookies of a response, with the export of its headers *)

\* the step every cookie call takes: r is the [c, ret] the operation yields
CookieStep(call, r) ==
    /\ cookies' = r.c
    /\ ret' = r.ret
    /\ last' = call
    /\ UNCHANGED <<headers, normalizers, options, _data, _media>>

SetCookie ==
    \E name \in CookieNames, value \in CookieValues, o \in CookieOptions :
        CookieStep([op |-> "set_cookie", name |-> name, value |-> value, options |-> o],
                   set_cookie(cookies, options, name, value, o))

UnsetCookie ==
    \E name \in CookieNames :
        CookieStep([op |-> "unset_cookie", name |-> name], unset_cookie(cookies, name))

\* the headers of the response the cookies go out with
AddHeader ==
    \E normalizer \in Normalizers :
        Step([op |-> "add", name |-> "Vary", value |-> PyStr(<<"a">>),
              normalizer |-> normalizer],
             add(headers, normalizers, "Vary", PyStr(<<"a">>), normalizer))

NextCookies ==
    \/ SetCookie
    \/ UnsetCookie
    \/ AddHeader
    \/ WsgiHeaders

SpecCookies == Init /\ [][NextCookies]_vars

----------------------------------------------------------------------------
(* The max-age and secure attributes of cookies, with the option that gives
   the default of secure *)

\* max_age arguments: none, 0, 0.5 and 1.9
MaxAges == {PyNone, PyNum(0), PyNum(5), PyNum(19)}

\* secure arguments: not given, True, False
SecureArgs == {PyNone, PyBool(TRUE), PyBool(FALSE)}

\* keyword arguments of set_cookie that give max_age and secure only
AttrOptions ==
    {[expires |-> PyNone, max_age |-> m, domain |-> PyNone, path |-> PyNone,
      secure |-> sec, http_only |-> PyBool(TRUE)] : m \in MaxAges, sec \in SecureArgs}

\* resp.options.secure_cookies_by_default = b
SetSecureDefault ==
    \E b \in BOOLEAN :
        /\ options' = [options EXCEPT !.secure_cookies_by_default = b]
        /\ last' = [op |-> "secure_cookies_by_default", value |-> b]
        /\ ret' = PyNone
        /\ UNCHANGED <<headers, normalizers, cookies, _data, _media>>

SetCookieAttr ==
    \E name \in {<<"a">>, <<"b">>}, o \in AttrOptions :
        CookieStep([op |-> "set_cookie", name |-> name, value |-> <<"v">>, options |-> o],
                   set_cookie(cookies, options, name, <<"v">>, o))

NextCookieAttrs ==
    \/ SetSecureDefault
    \/ SetCookieAttr
    \/ WsgiHeaders

SpecCookieAttrs == Init /\ [][NextCookieAttrs]_vars

----------------------------------------------------------------------------
(* The links of a response, with the reads of the Link header *)

AddLink ==
    \E target \in LinkTargets, rel \in LinkRels, o \in LinkOptions :
        /\ exists(headers, "link") => Len(Item(headers, "link").v) < MaxVals
        /\ Step([op |-> "add_link", target |-> target, rel |-> rel, options |-> o],
                add_link(headers, normalizers, target, rel, o))

GetLink ==
    \E use_normalizer \in BOOLEAN :
        Step([op |-> "get", name |-> "Link", use_normalizer |-> use_normalizer],
             get(headers, normalizers, "Link", use_normalizer))

SetLinkNormalizer ==
    \E normalizer \in Normalizers :
        Step([op |-> "set_normalizer", name |-> "Link", normalizer |-> normalizer],
             set_normalizer(headers, normalizers, "Link", normalizer))

NextLinks ==
    \/ AddLink
    \/ GetLink
    \/ SetLinkNormalizer
    \/ Normalized
    \/ WsgiHeaders

SpecLinks == Init /\ [][NextLinks]_vars

----------------------------------------------------------------------------
(* The body of a response: media, data and the Content-Type it is
   serialized for *)

GetData ==
    LET r == data_fget(headers, normalizers, _data, _media, options)
    IN  /\ headers' = r.h
        /\ normalizers' = r.n
        /\ _data' = r.d
        /\ ret' = r.ret
        /\ last' = [op |-> "data", serialized |-> r.serialized]
        /\ UNCHANGED <<cookies, options, _media>>

SetData ==
    \E value \in DataValues :
        /\ _data' = data_fset(_data, _media, value).d
        /\ _media' = data_fset(_data, _media, value).m
        /\ ret' = PyNone
        /\ last' = [op |-> "data_set", value |-> value]
        /\ UNCHANGED <<headers, normalizers, cookies, options>>

GetMedia ==
    /\ ret' = _media
    /\ last' = [op |-> "media"]
    /\ UNCHANGED <<headers, normalizers, cookies, options, _data, _media>>

SetMedia ==
    \E obj \in MediaObjects :
        /\ _data' = media_fset(_data, _media, obj).d
        /\ _media' = media_fset(_data, _media, obj).m
        /\ ret' = PyNone
        /\ last' = [op |-> "media_set", value |-> obj]
        /\ UNCHANGED <<headers, normalizers, cookies, options>>

\* the Content-Type of the response, added with either normalizer
AddContentType ==
    \E value \in {MEDIA_JSON, <<"a">>}, normalizer \in Normalizers :
        Step([op |-> "add", name |-> "Content-Type", value |-> PyStr(value),
              normalizer |-> normalizer],
             add(headers, normalizers, "Content-Type", PyStr(value), normalizer))

SetContentTypeNormalizer ==
    \E normalizer \in Normalizers :
        Step([op |-> "set_normalizer", name |-> "Content-Type", normalizer |-> normalizer],
             set_normalizer(headers, normalizers, "Content-Type", normalizer))

NextMedia ==
    \/ GetData
    \/ GetMedia
    \/ SetMedia
    \/ AddContentType
    \/ SetContentTypeNormalizer
    \/ WsgiHeaders

\* media assignments and reads, with no assignment to data
SpecMedia == Init /\ [][NextMedia]_vars

NextBody ==
    \/ NextMedia
    \/ SetData

SpecBody == Init /\ [][NextBody]_vars

----------------------------------------------------------------------------
(* Claims *)

\* the lower-cased name the last call was about
LastKey == Lower[last.name]

\* the coercion add is to perform: a str becomes a one-element list, a list
\* stays as it is
Coerced(x) == IF x.t = "str" THEN PyList(<<x.v>>) ELSE x

\* C1: append(name, value) on a name that has no entry fails with KeyNotFound
\* and leaves the store unchanged: exists(name) is still false and
\* normalized() returns what it returned before.
C1_AppendMissingFails ==
    [][(last'.op = "append" /\ ~exists(headers, last'.name)) =>
          /\ ret' = Raise("KeyError")
          /\ ~exists(headers', last'.name)
          /\ normalized(headers', normalizers').ret = normalized(headers, normalizers).ret]_vars

\* C2: get(name, use_normalizer) on a name with no entry and no bound
\* normalizer fails with KeyNotFound for both values of use_normalizer; it
\* never returns an empty string or an empty sequence.
C2_GetMissingFails ==
    [][(/\ last'.op = "get"
        /\ ~exists(headers, last'.name)
        /\ Lower[last'.name] \notin DOMAIN normalizers) =>
          ret' = Raise("KeyError")]_vars

\* C3: in every reachable state every name present in the value map has a
\* bound normalizer, so normalized() never fails and exports every present
\* entry.
C3_EveryEntryHasNormalizer ==
    /\ \A i \in DOMAIN headers : headers[i].k \in DOMAIN normalizers
    /\ LET r == normalized(headers, normalizers).ret
       IN  /\ r.t = "pairs"
           /\ Len(r.v) = Len(headers)
           /\ \A i \in DOMAIN headers : r.v[i][1] = headers[i].k

\* C4: when export is called with a non-absent default media type and
\* Content-Type has not been set, the sequence returned by that same call
\* contains a content-type pair whose value is the default media type.
C4_ExportCarriesDefaultContentType ==
    [][(/\ last'.op = "_wsgi_headers"
        /\ last'.media_type.t # "none"
        /\ ~exists(headers, "content-type")) =>
          /\ ret'.t = "pairs"
          /\ \E i \in DOMAIN ret'.v :
                ret'.v[i] = <<"content-type", last'.media_type.v>>]_vars

\* C5: reading a typed header accessor returns the absent-value sentinel,
\* without raising, in every state where that header is unset (never
\* written, written with the absent value, or deleted after having been
\* set); otherwise it returns the normalized string.
C5_AccessorReadOfUnsetIsAbsent ==
    [][last'.op = "fget" =>
          IF ~exists(headers, normalized_name(last'.property))
          THEN ret' = PyNone
          ELSE ret'.t = "str"]_vars

\* the calls that delete the entry of the lower-cased name k
Removes(call, k) ==
    \/ call.op = "remove" /\ Lower[call.name] = k
    \/ call.op = "fdel" /\ normalized_name(call.property) = k
    \/ call.op = "fset" /\ normalized_name(call.property) = k /\ call.value.t = "none"

\* C6: exists is case-insensitive: after add(n, v) and until the entry is
\* removed, exists(m) is true for every m that equals n up to letter case,
\* and exists(m) is false for every name whose lower-cased form has no entry.
C6_ExistsCaseInsensitive ==
    [][/\ last'.op = "add" =>
            \A m \in AllNames : Lower[m] = Lower[last'.name] => exists(headers', m)
       /\ \A m \in AllNames :
            (exists(headers, m) /\ ~Removes(last', Lower[m])) => exists(headers', m)
       /\ \A m \in AllNames :
            (\A i \in DOMAIN headers' : headers'[i].k # Lower[m]) => ~exists(headers', m)
       /\ last'.op = "exists" =>
            ret' = PyBool(\E i \in DOMAIN headers : headers[i].k = Lower[last'.name])]_vars

\* C6 witness: an entry added as "Vary" is found under the name "vary"
C6_Witness ==
    /\ last.op = "add"
    /\ last.name = "Vary"
    /\ exists(headers, "vary")
    /\ ~exists(headers, "Content-Type")

\* C7: add(name, x) immediately followed by get(name, use_normalizer=false)
\* returns exactly the coerced sequence: [x] when x is a single string, the
\* same ordered sequence when x is already a sequence of strings.
C7_AddThenRawGet ==
    last.op = "add" =>
        \A m \in AllNames : Lower[m] = LastKey =>
            get(headers, normalizers, m, FALSE).ret = Coerced(last.value)

\* C7 witness: a single string was added and the raw get gives the
\* one-element list made of it
C7_Witness ==
    /\ last.op = "add"
    /\ last.value.t = "str"
    /\ get(headers, normalizers, last.name, FALSE).ret = PyList(<<last.value.v>>)

\* C8: append(name, v) on an existing entry keeps all prior values in their
\* order and places v last; with the default normalizer the normalized value
\* is the comma join of the values in append order.
C8_AppendKeepsOrderAndJoins ==
    [][(/\ last'.op = "append"
        /\ exists(headers, last'.name)
        /\ Item(headers, Lower[last'.name]).t = "list") =>
          LET k == Lower[last'.name]
              vals == Append(Item(headers, k).v, last'.value.v)
          IN  /\ ret' = PyNone
              /\ Item(headers', k) = PyList(vals)
              /\ (k \in DOMAIN normalizers /\ normalizers[k] = "COMMA_NORMALIZER") =>
                    get(headers', normalizers', k, TRUE).ret = PyStr(Join(<<",">>, vals))]_vars

\* C9: round trip: after add(name, v, normalizer=N) with no later mutation of
\* that name, the pair exported for name by normalized() has value N([v]).
C9_AddNormalizedRoundTrip ==
    last.op = "add" =>
        LET r == normalized(headers, normalizers).ret
        IN  /\ r.t = "pairs"
            /\ \E i \in DOMAIN r.v :
                  /\ r.v[i][1] = LastKey
                  /\ PyStr(r.v[i][2]) = Call(last.normalizer, Coerced(last.value))

\* C10: calling normalized() twice with no mutation in between yields
\* identical output both times, and normalized() itself leaves the value map
\* and the normalizer bindings unchanged.
C10_NormalizedIdempotent ==
    [][last'.op = "normalized" =>
          /\ headers' = headers
          /\ normalizers' = normalizers
          /\ normalized(headers', normalizers').ret = ret']_vars

\* C10 witness: normalized() has exported two entries
C10_Witness ==
    /\ last.op = "normalized"
    /\ ret.t = "pairs"
    /\ Len(ret.v) = 2

\* C11: normalized() lists entries in the order of their first add: an entry
\* created by a call goes after the entries already present, no call changes
\* the relative order of two entries that stay (an overwriting add and an
\* append included), and normalized() returns the pairs in that order.
C11_NormalizedInFirstAddOrder ==
    [][/\ last'.op = "normalized" =>
            /\ ret'.t = "pairs"
            /\ Len(ret'.v) = Len(headers)
            /\ \A i \in DOMAIN headers : ret'.v[i][1] = headers[i].k
       /\ \A a, b \in LowerNames :
            (/\ Has(headers, a) /\ Has(headers, b)
             /\ Has(headers', a) /\ Has(headers', b)
             /\ IndexOf(headers, a) < IndexOf(headers, b)) =>
                IndexOf(headers', a) < IndexOf(headers', b)
       /\ \A b \in LowerNames :
            (~Has(headers, b) /\ Has(headers', b)) =>
                IndexOf(headers', b) = Len(headers')]_vars

\* C12: remove(name) never fails, whether or not the entry exists;
\* afterwards exists(name) is false, every other entry is unchanged, and a
\* second remove(name) leaves the state exactly as the first one did.
C12_RemoveIdempotent ==
    [][last'.op = "remove" =>
          LET k == Lower[last'.name] IN
          /\ ret' = PyNone
          /\ ~exists(headers', last'.name)
          /\ headers' = SelectSeq(headers, LAMBDA e : e.k # k)
          /\ \A k2 \in LowerNames \ {k} :
                /\ k2 \in DOMAIN normalizers' <=> k2 \in DOMAIN normalizers
                /\ k2 \in DOMAIN normalizers => normalizers'[k2] = normalizers[k2]
          /\ remove(headers', normalizers', last'.name)
                = [h |-> headers', n |-> normalizers', ret |-> PyNone]]_vars

\* C12 witness: an entry was removed and the other entry is still there
C12_Witness ==
    /\ last.op = "remove"
    /\ ret = PyNone
    /\ Len(headers) = 1
    /\ LastKey \in DOMAIN normalizers
    /\ ~exists(headers, last.name)

\* C13 (as claimed): a normalizer bound by set_normalizer before the entry is
\* created is honored once a call that names no normalizer creates the
\* entry: the binding is still N and get(name) renders the entry with N.
C13_PreboundNormalizerHonored ==
    [][(/\ last.op = "set_normalizer"
        /\ ~Has(headers, LastKey)
        /\ Has(headers', LastKey)
        /\ last'.op # "add") =>
          /\ LastKey \in DOMAIN normalizers'
          /\ normalizers'[LastKey] = last.normalizer
          /\ get(headers', normalizers', LastKey, TRUE).ret
                = Call(last.normalizer, Item(headers', LastKey))]_vars

\* the lower-cased name whose normalizer the call binds through add, if any
Rebinds(call, h, k) ==
    \/ call.op \in {"add", "set_normalizer"} /\ Lower[call.name] = k
    \/ call.op = "fset" /\ normalized_name(call.property) = k /\ call.value.t # "none"
    \/ /\ call.op = "_wsgi_headers"
       /\ k = "content-type"
       /\ call.media_type.t # "none"
       /\ ~Has(h, k)

\* the normalizer the call passes to add or set_normalizer
PassedNormalizer(call) ==
    IF call.op \in {"add", "set_normalizer"} THEN call.normalizer
    ELSE "COMMA_NORMALIZER"

\* C13 (amended): set_normalizer(name, N) binds N for name whether or not an
\* entry exists and changes nothing else; get(name) then renders the values
\* with N; a binding changes only by set_normalizer or by an add for that
\* name (the typed accessors and the export add with the default
\* normalizer), which binds the normalizer it is passed.
C13_NormalizerBoundUntilAdd ==
    [][/\ last'.op = "set_normalizer" =>
            LET k == Lower[last'.name] IN
            /\ headers' = headers
            /\ k \in DOMAIN normalizers' /\ normalizers'[k] = last'.normalizer
            /\ get(headers', normalizers', last'.name, TRUE).ret
                  = Call(last'.normalizer, DefaultGet(headers, k).val)
       /\ \A k \in LowerNames :
            (k \in DOMAIN normalizers /\ ~Rebinds(last', headers, k)) =>
                (k \in DOMAIN normalizers' /\ normalizers'[k] = normalizers[k])
       /\ \A k \in LowerNames :
            (k \notin DOMAIN normalizers /\ ~Rebinds(last', headers, k)) =>
                k \notin DOMAIN normalizers'
       /\ \A k \in LowerNames :
            (Rebinds(last', headers, k) /\ ret'.t # "exc") =>
                (k \in DOMAIN normalizers' /\ normalizers'[k] = PassedNormalizer(last'))]_vars

\* C13 witness: a normalizer is bound to a name that has no entry
C13_Witness ==
    /\ last.op = "set_normalizer"
    /\ ~Has(headers, LastKey)
    /\ normalizers[LastKey] = "USER_NORMALIZER"

\* C14: add(name, v, normalizer) overwrites the entry wholesale and
\* case-insensitively: whatever was added or appended before under any
\* casing of name, afterwards the raw sequence is exactly the coercion of v
\* and the bound normalizer is the one passed to this add.
C14_AddOverwrites ==
    last.op = "add" =>
        /\ Cardinality({i \in DOMAIN headers : headers[i].k = LastKey}) = 1
        /\ \A i \in DOMAIN headers : headers[i].k \in LowerNames
        /\ Item(headers, LastKey) = Coerced(last.value)
        /\ LastKey \in DOMAIN normalizers
        /\ normalizers[LastKey] = last.normalizer

\* C14 witness: "Vary" was added over an entry made before the content-type
\* entry (a new key would have gone last)
C14_Witness ==
    /\ last.op = "add"
    /\ last.name = "Vary"
    /\ last.value = PyStr(<<"a">>)
    /\ Len(headers) = 2
    /\ headers[1].k = "vary"
    /\ headers[1].v = PyList(<<<<"a">>>>)

\* C15: a typed-accessor write whose transform fails propagates the error
\* to the caller and leaves the store untouched: the entry's values, its
\* normalizer and exists(name) are the same as before the write.
C15_FailedTransformLeavesStore ==
    [][(/\ last'.op = "fset"
        /\ last'.property \in TransformProperties
        /\ last'.value.t # "none"
        /\ transform(last'.property, last'.value).t = "exc") =>
          /\ ret' = transform(last'.property, last'.value)
          /\ headers' = headers
          /\ normalizers' = normalizers
          /\ exists(headers', PropertyName[last'.property])
                = exists(headers, PropertyName[last'.property])]_vars

\* C15 witness: a malformed tuple was written to content_range while the
\* header had an entry and a caller's normalizer, and both are still there
C15_Witness ==
    /\ last.op = "fset"
    /\ last.property = "content_range"
    /\ ret = Raise("FormatError")
    /\ Has(headers, "content-range")
    /\ Len(Item(headers, "content-range").v) = 2
    /\ "content-range" \in DOMAIN normalizers
    /\ normalizers["content-range"] = "USER_NORMALIZER"

\* C16: writing an iterable of tokens to the vary accessor stores a
\* multi-value entry with one stored value per token, in order, which is
\* joined with commas on export; writing a single string stores a one-value
\* entry.
C16_IterableWriteStoresTokens ==
    (last.op = "fset" /\ last.property = "vary" /\ last.value.t # "none") =>
        /\ Item(headers, "vary") = Coerced(last.value)
        /\ fget(headers, normalizers, "vary").ret
              = PyStr(Join(<<",">>, Coerced(last.value).v))

\* C17: set_cookie with a name that is not ASCII-encodable fails with
\* InvalidName (KeyError), with a value that is not ASCII-encodable it fails
\* with InvalidValue (ValueError); in both cases the cookie collection is
\* what it was before the call.
C17_InvalidCookieRejected ==
    [][(/\ last'.op = "set_cookie"
        /\ ~(is_ascii_encodable(last'.name) /\ is_ascii_encodable(last'.value))) =>
          /\ ret' = IF ~is_ascii_encodable(last'.name)
                    THEN Raise("KeyError") ELSE Raise("ValueError")
          /\ cookies' = cookies]_vars

\* C17 witness: cookie a holds the value v after a set_cookie for a with a
\* value outside ASCII was refused
C17_Witness ==
    /\ last.op = "set_cookie"
    /\ last.name = <<"a">>
    /\ last.value = <<NON_ASCII>>
    /\ ret = Raise("ValueError")
    /\ cookies.t = "jar"
    /\ Has(cookies.v, <<"a">>)
    /\ Item(cookies.v, <<"a">>).value = <<"v">>

\* C18: whenever a set_cookie call fails, for any reason, the cookie
\* collection exported afterwards is identical to the one before the call.
C18_FailedSetCookieLeavesCookies ==
    [][(last'.op = "set_cookie" /\ ret'.t = "exc") =>
          CookiePairs(cookies') = CookiePairs(cookies)]_vars

\* C19: after a set_cookie for a name the collection holds exactly one
\* cookie of that name, with the value of this call and with the attributes
\* this call gives or defaults, as if the name had never been set before.
C19_LaterSetCookieReplaces ==
    (last.op = "set_cookie" /\ ret = PyNone) =>
        /\ cookies.t = "jar"
        /\ Cardinality({i \in DOMAIN cookies.v : cookies.v[i].k = last.name}) = 1
        /\ Item(cookies.v, last.name)
              = Item(set_cookie(PyNone, options, last.name, last.value, last.options).c.v,
                     last.name)

\* the names of the cookies in the order the jar holds them
CookieOrder(c) == [i \in DOMAIN JarOf(c) |-> JarOf(c)[i].k]

\* C20: export returns the header pairs followed by exactly one set-cookie
\* pair per cookie name, in the order of the first set or unset of each name
\* (a call for a name already there keeps the order, one for a new name puts
\* it last); no cookie is held in the header store.
C20_ExportAppendsCookies ==
    [][/\ last'.op = "_wsgi_headers" =>
            /\ ret'.t = "pairs"
            /\ Len(ret'.v) >= Len(JarOf(cookies))
            /\ \A i \in DOMAIN ret'.v :
                  LET n == Len(ret'.v) - Len(JarOf(cookies))
                  IN  IF i <= n THEN ret'.v[i][1] # "set-cookie"
                      ELSE ret'.v[i] = CookiePairs(cookies)[i - n]
            /\ "set-cookie" \notin Keys(headers')
       /\ last'.op \in {"set_cookie", "unset_cookie"} =>
            \/ CookieOrder(cookies') = CookieOrder(cookies)
            \/ /\ last'.name \notin Keys(JarOf(cookies))
               /\ CookieOrder(cookies') = Append(CookieOrder(cookies), last'.name)]_vars

\* C21: for every non-negative max_age passed to set_cookie, integer or
\* fractional, 0 and values between 0 and 1 included, the cookie carries a
\* max-age attribute equal to max_age truncated to an integer.
C21_MaxAgeTruncated ==
    (last.op = "set_cookie" /\ ret = PyNone /\ last.options.max_age.t = "num") =>
        Item(cookies.v, last.name).attrs.maxage = PyInt(last.options.max_age.v \div 10)

\* the last n characters of a string
Suffix(str_, n) == SubSeq(str_, Len(str_) - n + 1, Len(str_))

\* C22: for a cookie name not set before, set_cookie yields a cookie with
\* the secure attribute exactly when the effective flag is true: the secure
\* argument if given, options.secure_cookies_by_default otherwise; the
\* rendered cookie ends with Secure exactly then.
C22_SecureIsEffectiveFlag ==
    [][(/\ last'.op = "set_cookie"
        /\ ret' = PyNone
        /\ last'.name \notin Keys(JarOf(cookies))) =>
          LET effective == IF last'.options.secure.t = "none"
                           THEN options.secure_cookies_by_default
                           ELSE last'.options.secure.v
              m == Item(cookies'.v, last'.name)
          IN  /\ m.attrs.secure = IF effective THEN PyBool(TRUE) ELSE PyStr(<<>>)
              /\ effective <=> Suffix(OutputString(m), 6) = <<"S", "e", "c", "u", "r", "e">>]_vars

\* C22 witness: with the default on, the only cookie of the response was set
\* with secure=False and carries no secure attribute
C22_Witness ==
    /\ last.op = "set_cookie"
    /\ ret = PyNone
    /\ last.options.secure = PyBool(FALSE)
    /\ options.secure_cookies_by_default
    /\ Len(cookies.v) = 1
    /\ Item(cookies.v, last.name).attrs.secure = PyStr(<<>>)

\* C23: every add_link call leaves the link entry with one value more, the
\* new value last (the first call creates the entry with one value), so n
\* calls give n values in call order; the exported value of the entry is
\* its values joined with commas.
C23_AddLinkAppendsAndJoins ==
    [][last'.op = "add_link" =>
          LET value == link_value(last'.target, last'.rel, last'.options)
          IN  /\ Has(headers', "link")
              /\ Item(headers', "link")
                    = PyList(IF Has(headers, "link")
                             THEN Append(Item(headers, "link").v, value)
                             ELSE <<value>>)
              /\ get(headers', normalizers', "Link", TRUE).ret
                    = PyStr(Join(<<",">>, Item(headers', "link").v))]_vars

\* C24: with no explicit data assignment, assigning media serializes
\* nothing and drops the cached bytes; a read of data with media set returns
\* the serialization of the media object assigned last, calling serialize
\* exactly when no bytes are cached for it (the first read after an
\* assignment) and not on later reads.
C24_MediaSerializedOncePerAssignment ==
    [][/\ last'.op = "media_set" => (_data' = PyNone /\ _media' = last'.value)
       /\ (last'.op = "data" /\ _media.t # "none") =>
            /\ ret'.t = "bytes"
            /\ \E ct \in {MEDIA_JSON, <<"a">>} : ret' = serialize(_media, PyStr(ct))
            /\ last'.serialized <=> (_data = PyNone)
            /\ _data' = ret'
       /\ (last'.op = "data" /\ _media.t = "none") =>
            (ret' = PyNone /\ ~last'.serialized)]_vars

\* C25: explicit raw bytes have priority: a read of data right after bytes
\* were assigned returns those bytes, whatever media was assigned before,
\* and so does a read after a media assignment that follows the assignment
\* of the bytes.
C25_ExplicitBytesHavePriority ==
    [][/\ (last'.op = "data_set" /\ last'.value.t # "none") =>
            data_fget(headers', normalizers', _data', _media', options').ret = last'.value
       /\ (last.op = "data_set" /\ last.value.t # "none" /\ last'.op = "media_set") =>
            data_fget(headers', normalizers', _data', _media', options').ret = last.value]_vars

\* C26: every value held in the store is a list of strings, never a bare
\* string, so after set_headers([..., (name, v)]) the call get(name,
\* use_normalizer=false) returns [v].
C26_StoredValuesAreLists ==
    /\ \A i \in DOMAIN headers : headers[i].v.t = "list"
    /\ last.op = "set_headers" =>
          LET pair == last.pairs[Len(last.pairs)]
          IN  get(headers, normalizers, pair[1], FALSE).ret = PyList(<<pair[2]>>)

\* C27: get is a pure read that never creates an entry: exists(name), for
\* every name, and the output of normalized() are the same before and after
\* a get call, whether the call returns or fails.
C27_GetIsPureRead ==
    [][last'.op = "get" =>
          /\ \A m \in Names : exists(headers', m) = exists(headers, m)
          /\ normalized(headers', normalizers').ret
                = normalized(headers, normalizers).ret]_vars

\* C28: remove, the typed-accessor delete and the typed-accessor write of
\* the absent value destroy the whole entry, its normalizer binding
\* included: afterwards the name has no entry and no binding, and get on
\* the name does what it does on a store where the name was never added.
C28_RemoveDestroysBinding ==
    [][\A k \in LowerNames :
          Removes(last', k) =>
              /\ ~Has(headers', k)
              /\ k \notin DOMAIN normalizers'
              /\ get(headers', normalizers', k, TRUE).ret
                    = get(<<>>, <<>>, k, TRUE).ret]_vars

\* C29: two consecutive export calls with the same default media type and
\* no call in between return identical sequences of pairs.
C29_ExportTwiceSame ==
    [][(/\ last.op = "_wsgi_headers"
        /\ last'.op = "_wsgi_headers"
        /\ last'.media_type = last.media_type) =>
          ret' = ret]_vars

\* C30: export never overwrites an explicitly set Content-Type: when a
\* content-type entry exists at the call, its values and its normalizer
\* binding are unchanged by it for every default media type; when the
\* default is absent the whole header store is unchanged.
C30_ExportKeepsContentType ==
    [][last'.op = "_wsgi_headers" =>
          /\ Has(headers, "content-type") =>
                /\ Has(headers', "content-type")
                /\ Item(headers', "content-type") = Item(headers, "content-type")
                /\ ("content-type" \in DOMAIN normalizers')
                      = ("content-type" \in DOMAIN normalizers)
                /\ "content-type" \in DOMAIN normalizers =>
                      normalizers'["content-type"] = normalizers["content-type"]
          /\ last'.media_type.t = "none" =>
                (headers' = headers /\ normalizers' = normalizers)]_vars

\* C30 witness: an export with the default media type "j" returned its
\* pairs and the Content-Type "a", bound to the caller's normalizer, is
\* still in the store
C30_Witness ==
    /\ last.op = "_wsgi_headers"
    /\ last.media_type = PyStr(MEDIA_JSON)
    /\ ret.t = "pairs"
    /\ Has(headers, "content-type")
    /\ Item(headers, "content-type") = PyList(<<<<"a">>>>)
    /\ "content-type" \in DOMAIN normalizers
    /\ normalizers["content-type"] = "USER_NORMALIZER"

\* C31: reading data when a media object is set, no bytes are set and the
\* response has no Content-Type succeeds: the read returns the
\* serialization of the media object for options.default_media_type, it
\* sets the Content-Type header to that media type, and an export after it
\* contains that content-type pair.
C31_DataReadSetsDefaultContentType ==
    [][(/\ last'.op = "data"
        /\ _media.t # "none"
        /\ _data.t = "none"
        /\ ~Has(headers, "content-type")) =>
          LET export == _wsgi_headers(headers', normalizers', cookies', PyNone).ret
          IN  /\ last'.serialized
              /\ ret' = serialize(_media, PyStr(options.default_media_type))
              /\ Has(headers', "content-type")
              /\ Item(headers', "content-type") = PyList(<<options.default_media_type>>)
              /\ export.t = "pairs"
              /\ \E i \in DOMAIN export.v :
                    export.v[i] = <<"content-type", options.default_media_type>>]_vars

====
